---- MODULE Spec2Model ----
(***************************************************************************)
(* Model of the live-log core of bark: the filter engine (src/filter.rs),  *)
(* the consumer loop (src/main.rs run_event_loop) and the parts of the     *)
(* view (src/ui.rs) that read the filtered index.                          *)
(*                                                                         *)
(* Strings are sequences of characters; every character has a UTF-8       *)
(* encoding of 1..3 bytes and a lowercase mapping, so byte offsets, byte   *)
(* lengths and char boundaries are computed the way Rust's str does.       *)
(***************************************************************************)
EXTENDS Integers, Sequences, FiniteSets, TLC

(***************************************************************************)
(* Bounds: characters in a line text and in a pattern                      *)
(***************************************************************************)
MaxTextLen == 3
MaxPatLen == 2
MaxHScroll == 2

(***************************************************************************)
(* Characters.  KELVIN is U+212A KELVIN SIGN: three bytes in UTF-8, and    *)
(* char::to_lowercase maps it to the one-byte "k".  "(" is a regex         *)
(* metacharacter: with no ")" in the alphabet a pattern holding it never   *)
(* compiles.                                                               *)
(***************************************************************************)
KELVIN == "KELVIN"
Alphabet == {"a", "b", "A", KELVIN, "("}

Utf8Len(c) == IF c = KELVIN THEN 3 ELSE 1

Lower(c) == CASE c = "A" -> <<"a">>
              [] c = KELVIN -> <<"k">>
              [] OTHER -> <<c>>

RECURSIVE StrLen(_)
StrLen(s) == IF s = <<>> THEN 0 ELSE Utf8Len(Head(s)) + StrLen(Tail(s))

RECURSIVE ToLowercase(_)
ToLowercase(s) == IF s = <<>> THEN <<>> ELSE Lower(Head(s)) \o ToLowercase(Tail(s))

\* the UTF-8 bytes of s; a byte is <<char, k>>, the k-th byte of that char
RECURSIVE Bytes(_)
Bytes(s) ==
    IF s = <<>> THEN <<>>
    ELSE [k \in 1..Utf8Len(Head(s)) |-> <<Head(s), k>>] \o Bytes(Tail(s))

\* str::is_char_boundary: offset i (0-based) starts a char or is the end
IsCharBoundary(s, i) ==
    \/ i = StrLen(s)
    \/ /\ i >= 0 /\ i < StrLen(s)
       /\ Bytes(s)[i + 1][2] = 1

\* the bytes of s in the half-open byte interval [i, j)
ByteSlice(s, i, j) == SubSeq(Bytes(s), i + 1, j)

\* can &s[i..j] be taken without a panic
SliceOk(s, i, j) ==
    /\ 0 <= i /\ i <= j /\ j <= StrLen(s)
    /\ IsCharBoundary(s, i) /\ IsCharBoundary(s, j)

\* byte offsets at which needle occurs in hay at or after byte offset from
OccurrencesFrom(hay, from, needle) ==
    {p \in from..(StrLen(hay) - StrLen(needle)) :
        ByteSlice(hay, p, p + StrLen(needle)) = Bytes(needle)}

Min(S) == CHOOSE x \in S : \A y \in S : x <= y

\* str::contains
Contains(hay, needle) == OccurrencesFrom(hay, 0, needle) # {}

\* the chars of s that lie in the byte interval [i, j); meaningful when SliceOk
RECURSIVE StrSliceAt(_, _, _, _)
StrSliceAt(s, off, i, j) ==
    IF s = <<>> THEN <<>>
    ELSE (IF i <= off /\ off + Utf8Len(Head(s)) <= j THEN <<Head(s)>> ELSE <<>>)
         \o StrSliceAt(Tail(s), off + Utf8Len(Head(s)), i, j)

StrSlice(s, i, j) == StrSliceAt(s, 0, i, j)

\* all strings over Alphabet of at most n chars
RECURSIVE StringsUpTo(_)
StringsUpTo(n) ==
    IF n = 0 THEN {<<>>}
    ELSE LET shorter == StringsUpTo(n - 1)
         IN  shorter \cup {Append(s, c) : s \in shorter, c \in Alphabet}

Texts == StringsUpTo(MaxTextLen)
Patterns == StringsUpTo(MaxPatLen)

(***************************************************************************)
(* The regex crate, for the patterns this alphabet can spell: a pattern    *)
(* with an unclosed "(" does not compile; any other pattern is a           *)
(* concatenation of literal characters (the empty pattern matches the      *)
(* empty string at every position).                                        *)
(***************************************************************************)
RegexCompiles(pattern) == \A k \in 1..Len(pattern) : pattern[k] # "("

\* Regex::is_match
RegexIsMatch(pattern, line) == Contains(line, pattern)

\* Regex::find_iter: leftmost matches, left to right, none overlapping; an
\* empty match is reported at every char boundary
RECURSIVE RegexScan(_, _, _, _)
RegexScan(pattern, line, from, acc) ==
    LET occ == {p \in OccurrencesFrom(line, from, pattern) : IsCharBoundary(line, p)}
    IN  IF occ = {} THEN acc
        ELSE LET s == Min(occ)
                 e == s + StrLen(pattern)
                 next == IF e = s THEN Min({q \in (s + 1)..(StrLen(line) + 1) :
                                              q = StrLen(line) + 1 \/ IsCharBoundary(line, q)})
                         ELSE e
             IN  RegexScan(pattern, line, next, Append(acc, [start |-> s, end |-> e]))

RegexFindIter(pattern, line) == RegexScan(pattern, line, 0, <<>>)

(***************************************************************************)
(* ActiveFilter (src/filter.rs)                                            *)
(***************************************************************************)
\* ActiveFilter::new
New(pattern, is_regex) ==
    [pattern       |-> pattern,
     is_regex      |-> is_regex,
     compiled      |-> is_regex /\ RegexCompiles(pattern),
     pattern_lower |-> ToLowercase(pattern)]

\* ActiveFilter::matches
Matches(f, line) ==
    IF f.is_regex
    THEN IF f.compiled THEN RegexIsMatch(f.pattern, line)
                       ELSE Contains(line, f.pattern)
    ELSE Contains(ToLowercase(line), f.pattern_lower)

\* the while-let loop of find_substring_matches; start is the loop variable.
\* &line_lower[start..] panics when start is past the end or inside a char.
RECURSIVE SubstringScan(_, _, _, _)
SubstringScan(f, line_lower, start, acc) ==
    IF ~SliceOk(line_lower, start, StrLen(line_lower))
    THEN [ranges |-> acc, panicked |-> TRUE]
    ELSE LET occ == OccurrencesFrom(line_lower, start, f.pattern_lower)
         IN  IF occ = {} THEN [ranges |-> acc, panicked |-> FALSE]
             ELSE LET match_start == Min(occ)
                      match_end == match_start + StrLen(f.pattern)
                  IN  SubstringScan(f, line_lower, match_end,
                          Append(acc, [start |-> match_start, end |-> match_end]))

\* ActiveFilter::find_substring_matches
FindSubstringMatches(f, line) ==
    IF f.pattern_lower = <<>> THEN [ranges |-> <<>>, panicked |-> FALSE]
    ELSE SubstringScan(f, ToLowercase(line), 0, <<>>)

\* ActiveFilter::find_matches
FindMatches(f, line) ==
    IF f.is_regex
    THEN IF f.compiled
         THEN [ranges |-> RegexFindIter(f.pattern, line), panicked |-> FALSE]
         ELSE FindSubstringMatches(f, line)
    ELSE FindSubstringMatches(f, line)

(***************************************************************************)
(* Rendering one row of the log view (src/ui.rs)                           *)
(***************************************************************************)
\* apply_horizontal_scroll: text.chars().skip(offset), an offset in chars
ApplyHorizontalScroll(text, offset) ==
    IF offset = 0 THEN text
    ELSE SubSeq(text, offset + 1, Len(text))

\* the filter_map over the ranges of the raw line, h_scroll > 0
RECURSIVE AdjustForScroll(_, _)
AdjustForScroll(matches, h_scroll) ==
    IF matches = <<>> THEN <<>>
    ELSE LET m == Head(matches)
             rest == AdjustForScroll(Tail(matches), h_scroll)
         IN  IF m.end <= h_scroll THEN rest
             ELSE IF m.start < h_scroll
                  THEN <<[start |-> 0, end |-> m.end - h_scroll]>> \o rest
                  ELSE <<[start |-> m.start - h_scroll,
                          end |-> m.end - h_scroll]>> \o rest

\* the loop of highlight_matches from match i on; a span is the text of one
\* slice and whether it is highlighted
RECURSIVE HighlightScan(_, _, _, _, _)
HighlightScan(text, matches, i, last_end, spans) ==
    IF i > Len(matches)
    THEN IF last_end < StrLen(text)
         THEN IF SliceOk(text, last_end, StrLen(text))
              THEN [spans |-> Append(spans,
                                [text |-> StrSlice(text, last_end, StrLen(text)),
                                 highlighted |-> FALSE]),
                    panicked |-> FALSE]
              ELSE [spans |-> spans, panicked |-> TRUE]
         ELSE [spans |-> spans, panicked |-> FALSE]
    ELSE LET m == matches[i]
             before == IF m.start > last_end
                       THEN Append(spans,
                                [text |-> StrSlice(text, last_end, m.start),
                                 highlighted |-> FALSE])
                       ELSE spans
         IN  IF m.start > last_end /\ ~SliceOk(text, last_end, m.start)
             THEN [spans |-> spans, panicked |-> TRUE]
             ELSE IF m.end <= StrLen(text)
                  THEN IF SliceOk(text, m.start, m.end)
                       THEN HighlightScan(text, matches, i + 1, m.end,
                                Append(before,
                                    [text |-> StrSlice(text, m.start, m.end),
                                     highlighted |-> TRUE]))
                       ELSE [spans |-> before, panicked |-> TRUE]
                  ELSE HighlightScan(text, matches, i + 1, last_end, before)

\* highlight_matches
HighlightMatches(text, matches) ==
    IF matches = <<>>
    THEN [spans |-> <<[text |-> text, highlighted |-> FALSE]>>,
          panicked |-> FALSE]
    ELSE HighlightScan(text, matches, 1, 0, <<>>)

\* AppState::get_match_ranges: the ranges of the active filter, none without
\* a filter
GetMatchRanges(af, raw) ==
    IF af = <<>> THEN [ranges |-> <<>>, panicked |-> FALSE]
    ELSE FindMatches(af[1], raw)

\* the plain-text branch of draw_log_view for one single-line row
DrawLine(af, raw, line_wrap, horizontal_scroll) ==
    LET h_scroll == IF line_wrap THEN 0 ELSE horizontal_scroll
        scrolled == ApplyHorizontalScroll(raw, h_scroll)
        found == GetMatchRanges(af, raw)
        matches == IF h_scroll > 0 THEN AdjustForScroll(found.ranges, h_scroll)
                   ELSE found.ranges
        line == HighlightMatches(scrolled, matches)
    IN  IF found.panicked
        THEN [scrolled |-> scrolled, matches |-> <<>>, spans |-> <<>>,
              panicked |-> TRUE]
        ELSE [scrolled |-> scrolled, matches |-> matches,
              spans |-> line.spans, panicked |-> line.panicked]

(***************************************************************************)
(* State                                                                   *)
(***************************************************************************)
VARIABLES
    \* a filter under construction and use (ActiveFilter, src/filter.rs)
    h_pattern, h_is_regex, h_text, h_filter, h_matched, h_found, h_pc,
    \* one row of the log view being rendered (draw_log_view, src/ui.rs)
    h_line_wrap, h_horizontal_scroll, h_line,
    \* AppState, owned by the consumer loop
    lines, active_filter, filter_text, filter_is_regex,
    filter_needs_recompute, elapsed, filtered_indices,
    scroll, stick_to_bottom, viewport_height, bookmarks,
    status_message, should_quit,
    \* run_event_loop and its environment
    pc, queue, producers, nsent, term_height,
    \* a key waiting in the terminal's input buffer; the direction and the
    \* sequence index of the last bookmark jump (None before the first)
    input_pending, nav_target,
    \* history: rescans since the last edit, ids of the Line events dequeued
    rescans, dequeued

h_draw_vars == <<h_line_wrap, h_horizontal_scroll, h_line>>
h_vars == <<h_pattern, h_is_regex, h_text, h_filter, h_matched, h_found, h_pc,
           h_draw_vars>>
filter_vars == <<active_filter, filter_text, filter_is_regex,
                 filter_needs_recompute, elapsed, rescans>>
view_vars == <<scroll, stick_to_bottom, viewport_height>>
core_vars == <<lines, filtered_indices, bookmarks, dequeued>>
chan_vars == <<queue, producers, nsent>>
key_vars == <<input_pending, nav_target>>
app_vars == <<filter_vars, view_vars, core_vars, chan_vars,
              status_message, should_quit, pc, term_height, key_vars>>
vars == <<h_vars, app_vars>>

\* Option<T> is a sequence of at most one element: <<>> is None, <<x>> is Some(x)
None == <<>>
Some(x) == <<x>>
NoResult == [ranges |-> <<>>, panicked |-> FALSE]
NoLine == [scrolled |-> <<>>, matches |-> <<>>, spans |-> <<>>, panicked |-> FALSE]

(***************************************************************************)
(* AppState: the log buffer, the filtered index with its debounce, and the *)
(* viewport.                                                               *)
(***************************************************************************)
\* bounds: Line and Error events the producers send in all, rows of the
\* display, capacity of the event queue, producer tasks
MaxEvents == 3
MaxHeight == 2
QueueCap == 2
NumProducers == 2
\* the debounce threshold, in ticks of the clock
DebounceTicks == 2

\* what a source can emit as a line, and what the user can leave in the
\* filter text area
LineTexts == {<<"A">>, <<"(", "b">>}
FilterTexts == {<<>>, <<"a">>, <<"(">>}
Heights == 0..MaxHeight
Producers == 1..NumProducers

Max2(a, b) == IF a >= b THEN a ELSE b
Min2(a, b) == IF a <= b THEN a ELSE b

\* the largest scroll offset for n filtered lines on a display of h rows
MaxScroll(n, h) == Max2(0, n - h)

\* does a line pass the current filter (every line passes when there is none)
Passes(af, raw) == af = None \/ Matches(af[1], raw)

\* full rescan: the sequence indices of the lines that pass, in buffer order
RECURSIVE Rebuild(_, _, _)
Rebuild(af, ls, i) ==
    IF i > Len(ls) THEN <<>>
    ELSE (IF Passes(af, ls[i].raw) THEN <<ls[i].index>> ELSE <<>>)
         \o Rebuild(af, ls, i + 1)

\* the filter that the text area and the regex flag stand for
PendingFilter(text, is_regex) ==
    IF text = <<>> THEN None ELSE Some(New(text, is_regex))

\* the scroll offset after the filtered index has changed to n entries
Reclamp(sc, follow, n, h) ==
    IF follow THEN MaxScroll(n, h) ELSE Min2(sc, MaxScroll(n, h))

\* AppState::visible_lines(height): the window of filtered positions shown
\* on a display of height rows, after clamping the scroll offset
VisibleScroll(height) ==
    Reclamp(scroll, stick_to_bottom, Len(filtered_indices), height)

VisibleLines(height) ==
    LET first == VisibleScroll(height)
        last == Min2(Len(filtered_indices), first + height)
    IN  [row \in 1..(last - first) |-> filtered_indices[first + row]]

(***************************************************************************)
(* One filter, built and applied to one text: ActiveFilter::new, then      *)
(* matches, then find_matches, for every pattern, mode and text.           *)
(***************************************************************************)
Compile ==
    /\ h_pc = "new"
    /\ h_filter' = Some(New(h_pattern, h_is_regex))
    /\ h_pc' = "built"
    /\ UNCHANGED <<h_pattern, h_is_regex, h_text, h_matched, h_found, h_draw_vars,
                   app_vars>>

CallMatches ==
    /\ h_pc = "built"
    /\ h_matched' = Matches(h_filter[1], h_text)
    /\ h_pc' = "matched"
    /\ UNCHANGED <<h_pattern, h_is_regex, h_text, h_filter, h_found, h_draw_vars,
                   app_vars>>

CallFindMatches ==
    /\ h_pc = "matched"
    /\ h_found' = FindMatches(h_filter[1], h_text)
    /\ h_pc' = "found"
    /\ UNCHANGED <<h_pattern, h_is_regex, h_text, h_filter, h_matched, h_draw_vars,
                   app_vars>>

\* draw_log_view renders the text as a row under the filter, for every
\* wrap setting and horizontal scroll offset
CallDrawLine ==
    /\ h_pc = "found"
    /\ \E wrap \in BOOLEAN, hs \in 0..MaxHScroll :
           /\ h_line_wrap' = wrap
           /\ h_horizontal_scroll' = hs
           /\ h_line' = DrawLine(h_filter, h_text, wrap, hs)
    /\ h_pc' = "drawn"
    /\ UNCHANGED <<h_pattern, h_is_regex, h_text, h_filter, h_matched, h_found,
                   app_vars>>

\* the consumer loop before it starts, with nothing ingested
AppIdle ==
    /\ lines = <<>> /\ active_filter = None /\ filter_text = <<>>
    /\ filter_is_regex = FALSE /\ filter_needs_recompute = FALSE
    /\ elapsed = 0 /\ filtered_indices = <<>>
    /\ scroll = 0 /\ stick_to_bottom = TRUE /\ viewport_height = 1
    /\ bookmarks = {} /\ status_message = "None" /\ should_quit = FALSE
    /\ pc = "check" /\ queue = <<>> /\ producers = <<>> /\ nsent = 0
    /\ term_height = 1 /\ rescans = 0 /\ dequeued = <<>>
    /\ input_pending = FALSE /\ nav_target = None

InitFilter ==
    /\ h_pattern \in Patterns
    /\ h_is_regex \in BOOLEAN
    /\ h_text \in Texts
    /\ h_filter = None /\ h_matched = FALSE /\ h_found = NoResult
    /\ h_line_wrap = FALSE /\ h_horizontal_scroll = 0 /\ h_line = NoLine
    /\ h_pc = "new"
    /\ AppIdle

NextFilter == Compile \/ CallMatches \/ CallFindMatches \/ CallDrawLine

SpecFilter == InitFilter /\ [][NextFilter]_vars

(***************************************************************************)
(* Properties of the filter engine                                         *)
(***************************************************************************)
Sorted(ranges) ==
    \A i \in 1..(Len(ranges) - 1) : ranges[i].start <= ranges[i + 1].start
NonOverlapping(ranges) ==
    \A i \in 1..(Len(ranges) - 1) : ranges[i].end <= ranges[i + 1].start
RangeSpellsPattern(r, text, pattern) ==
    /\ SliceOk(text, r.start, r.end)
    /\ ToLowercase(StrSlice(text, r.start, r.end)) = ToLowercase(pattern)

\* C8: for a non-empty literal pattern, find_matches returns ranges that are
\* sorted by start, pairwise non-overlapping, and each range of the original
\* text equals the pattern case-insensitively.
C8_LiteralRangesSpellPattern ==
    (h_pc = "found" /\ ~h_is_regex /\ h_pattern # <<>>) =>
        /\ ~h_found.panicked
        /\ Sorted(h_found.ranges)
        /\ NonOverlapping(h_found.ranges)
        /\ \A i \in 1..Len(h_found.ranges) :
               RangeSpellsPattern(h_found.ranges[i], h_text, h_pattern)

\* C9: for the empty pattern find_matches returns the empty sequence for
\* every text, in literal mode and in regex mode.
C9_EmptyPatternNoMatches ==
    (h_pc = "found" /\ h_pattern = <<>>) =>
        (~h_found.panicked /\ h_found.ranges = <<>>)

\* a compiled regex of this alphabet matches zero-width only when it is empty
CanMatchZeroWidth(f) == f.pattern = <<>>

\* C10: for every literal filter and every compiled regex filter that cannot
\* match zero-width, matches is true iff find_matches returns a non-empty
\* sequence.
C10_MatchesIffFound ==
    (/\ h_pc = "found"
     /\ \/ ~h_is_regex
        \/ (h_filter[1].compiled /\ ~CanMatchZeroWidth(h_filter[1]))) =>
        (h_matched <=> (~h_found.panicked /\ h_found.ranges # <<>>))

\* a filter built in regex mode whose pattern did not compile
IsFallback(f) == f.is_regex /\ ~f.compiled

\* range r covers the occurrence of pattern at byte offset p of the text
Covers(r, p, pattern) == r.start <= p /\ p + StrLen(pattern) <= r.end

\* C11: a regex-mode filter whose pattern fails to compile still works as a
\* literal filter: on every text that contains the pattern text, matches is
\* true and find_matches returns a range covering an occurrence of it.
C11_FallbackMatchesAndHighlights ==
    (/\ h_pc = "found"
     /\ IsFallback(h_filter[1])
     /\ Contains(h_text, h_pattern)) =>
        /\ h_matched
        /\ ~h_found.panicked
        /\ \E i \in 1..Len(h_found.ranges) :
               \E p \in OccurrencesFrom(h_text, 0, h_pattern) :
                   Covers(h_found.ranges[i], p, h_pattern)

\* the byte intervals [p, e) of the text that spell the pattern when both
\* are lowercased, starting at or after byte offset from
OccurrencesIgnoringCase(text, from, pattern) ==
    {pe \in (from..StrLen(text)) \X (from..StrLen(text)) :
        /\ pe[1] < pe[2]
        /\ SliceOk(text, pe[1], pe[2])
        /\ ToLowercase(StrSlice(text, pe[1], pe[2])) = ToLowercase(pattern)}

\* the leftmost occurrence, then the leftmost one starting at or after its
\* end, and so on
RECURSIVE GreedyOccurrences(_, _, _)
GreedyOccurrences(text, from, pattern) ==
    LET occ == OccurrencesIgnoringCase(text, from, pattern)
    IN  IF occ = {} THEN <<>>
        ELSE LET first == CHOOSE pe \in occ :
                              \A qe \in occ : pe[1] < qe[1]
                                              \/ (pe[1] = qe[1] /\ pe[2] <= qe[2])
             IN  <<[start |-> first[1], end |-> first[2]]>>
                 \o GreedyOccurrences(text, first[2], pattern)

\* C14: in literal mode find_matches terminates on every text and returns
\* exactly the leftmost-greedy occurrences of the pattern, each search
\* resuming at the end of the previous range.
C14_LiteralLeftmostGreedy ==
    (h_pc = "found" /\ ~h_is_regex /\ h_pattern # <<>>) =>
        /\ ~h_found.panicked
        /\ h_found.ranges = GreedyOccurrences(h_text, 0, h_pattern)

\* C15: with no compiled matcher find_matches is case-sensitive: every range
\* spells the pattern with identical case, so it returns a range exactly
\* when matches is true.
C15_FallbackCaseSensitive ==
    (h_pc = "found" /\ IsFallback(h_filter[1])) =>
        /\ ~h_found.panicked
        /\ \A i \in 1..Len(h_found.ranges) :
               /\ SliceOk(h_text, h_found.ranges[i].start, h_found.ranges[i].end)
               /\ StrSlice(h_text, h_found.ranges[i].start, h_found.ranges[i].end)
                      = h_pattern
        /\ (h_found.ranges # <<>>) <=> h_matched

\* the byte length of the first k chars of s
BytesOfChars(s, k) == StrLen(SubSeq(s, 1, Min2(k, Len(s))))

\* the ranges of the raw text, restated as byte ranges of the text left
\* after its first h chars are scrolled away
RECURSIVE VisibleRanges(_, _, _)
VisibleRanges(raw, ranges, h) ==
    IF ranges = <<>> THEN <<>>
    ELSE LET cut == BytesOfChars(raw, h)
             m == Head(ranges)
             rest == VisibleRanges(raw, Tail(ranges), h)
         IN  IF m.end <= cut THEN rest
             ELSE <<[start |-> Max2(m.start, cut) - cut,
                     end |-> m.end - cut]>> \o rest

\* every range is a slice of the text
RangesInside(text, ranges) ==
    \A i \in 1..Len(ranges) : SliceOk(text, ranges[i].start, ranges[i].end)

\* C13: with wrapping off and a horizontal offset of h > 0 chars, the ranges
\* handed to the renderer are the ranges of the raw line re-offset against
\* the scrolled text: dropped when entirely left of the offset, truncated to
\* start at 0 when straddling it, shifted left otherwise, so that each covers
\* exactly the still-visible characters of its match, multi-byte or not.
C13_RangesFollowScroll ==
    (/\ h_pc = "drawn"
     /\ ~h_line_wrap /\ h_horizontal_scroll > 0
     /\ ~h_found.panicked
     /\ RangesInside(h_text, h_found.ranges)) =>
        h_line.matches = VisibleRanges(h_text, h_found.ranges, h_horizontal_scroll)

\* C17: for every line, filter and horizontal scroll offset, each range
\* that reaches highlight_matches lies inside the displayed text
\* (0 <= start <= end <= its byte length), consecutive ranges do not go
\* backwards, and neither the scan of find_substring_matches nor the
\* slicing of highlight_matches indexes outside the text.
C17_RangesInsideDisplayedText ==
    (h_pc = "drawn") =>
        /\ ~h_found.panicked
        /\ ~h_line.panicked
        /\ \A i \in 1..Len(h_line.matches) :
               /\ 0 <= h_line.matches[i].start
               /\ h_line.matches[i].start <= h_line.matches[i].end
               /\ h_line.matches[i].end <= StrLen(h_line.scrolled)
        /\ \A i \in 1..(Len(h_line.matches) - 1) :
               h_line.matches[i].end <= h_line.matches[i + 1].start

(***************************************************************************)
(* The consumer loop (run_event_loop) and its environment                  *)
(***************************************************************************)
h_idle ==
    /\ h_pattern = <<>> /\ h_is_regex = FALSE /\ h_text = <<>>
    /\ h_filter = None /\ h_matched = FALSE /\ h_found = NoResult
    /\ h_line_wrap = FALSE /\ h_horizontal_scroll = 0 /\ h_line = NoLine
    /\ h_pc = "idle"

Init ==
    /\ h_idle
    /\ lines = <<>> /\ active_filter = None /\ filter_text = <<>>
    /\ filter_is_regex = FALSE /\ filter_needs_recompute = FALSE
    /\ elapsed = 0 /\ filtered_indices = <<>>
    /\ scroll = 0 /\ stick_to_bottom = TRUE
    /\ viewport_height = 1
    /\ bookmarks = {} /\ status_message = "None" /\ should_quit = FALSE
    /\ pc = "check" /\ queue = <<>>
    /\ producers = [p \in Producers |-> "running"]
    /\ nsent = 0
    /\ term_height \in Heights
    /\ rescans = 0 /\ dequeued = <<>>
    /\ input_pending = FALSE /\ nav_target = None

\* the end of one loop iteration: break when should_quit is set
EndIteration(quit) == pc' = IF quit THEN "done" ELSE "check"

\* variant: the rescan leaves the scroll offset where it was
CheckFilterDebounce_NoClamp ==
    IF filter_needs_recompute /\ elapsed >= DebounceTicks
    THEN LET af == PendingFilter(filter_text, filter_is_regex)
         IN  /\ active_filter' = af
             /\ filtered_indices' = Rebuild(af, lines, 1)
             /\ filter_needs_recompute' = FALSE
             /\ rescans' = rescans + 1
             /\ scroll' = scroll
    ELSE UNCHANGED <<active_filter, filtered_indices, filter_needs_recompute,
                     rescans, scroll>>

\* AppState::check_filter_debounce: once the text has been idle for the
\* threshold, replace the filter and rebuild the filtered index
CheckFilterDebounce ==
    IF filter_needs_recompute /\ elapsed >= DebounceTicks
    THEN LET af == PendingFilter(filter_text, filter_is_regex)
             fi == Rebuild(af, lines, 1)
         IN  /\ active_filter' = af
             /\ filtered_indices' = fi
             /\ filter_needs_recompute' = FALSE
             /\ rescans' = rescans + 1
             /\ scroll' = Reclamp(scroll, stick_to_bottom, Len(fi), viewport_height)
    ELSE UNCHANGED <<active_filter, filtered_indices, filter_needs_recompute,
                     rescans, scroll>>

\* variant: the iteration goes straight to the draw without the check
CheckDebounce_Skipped ==
    /\ pc = "check"
    /\ pc' = "draw"
    /\ UNCHANGED <<h_vars, filter_vars, view_vars, core_vars, chan_vars,
                   status_message, should_quit, term_height, key_vars>>

\* the top of every loop iteration: state.check_filter_debounce()
CheckDebounce ==
    /\ pc = "check"
    /\ CheckFilterDebounce
    /\ pc' = "draw"
    /\ UNCHANGED <<h_vars, filter_text, filter_is_regex, elapsed, stick_to_bottom,
                   viewport_height, lines, bookmarks, dequeued, chan_vars,
                   status_message, should_quit, term_height, key_vars>>

\* AppState::visible_lines(height) clamps the stored scroll offset
ClampToWindow(height) ==
    /\ scroll' = VisibleScroll(height)
    /\ viewport_height' = height

\* line_data of draw_log_view: for each row of the window, the sequence
\* index of the line shown and the is_bookmarked flag computed for it.  The
\* flag is looked up at scroll_pos + row in a copy of filtered_indices, with
\* scroll_pos read before visible_lines runs and 0 taken when out of range.
LineData(height) ==
    LET scroll_pos == scroll
        visible == VisibleLines(height)
    IN  [row \in 1..Len(visible) |->
            LET actual_line_idx ==
                    IF scroll_pos + row <= Len(filtered_indices)
                    THEN filtered_indices[scroll_pos + row]
                    ELSE 0
            IN  [index |-> visible[row],
                 is_bookmarked |-> actual_line_idx \in bookmarks]]

\* terminal.draw: draw_log_view returns early on a zero height, otherwise it
\* asks AppState::visible_lines(height) for the window
Draw ==
    /\ pc = "draw"
    /\ IF term_height = 0
       THEN UNCHANGED <<scroll, viewport_height>>
       ELSE ClampToWindow(term_height)
    /\ pc' = "select"
    /\ UNCHANGED <<h_vars, filter_vars, stick_to_bottom, core_vars, chan_vars,
                   status_message, should_quit, term_height, key_vars>>

\* select!: on its first poll the fresh 16 ms sleep is pending; with nothing
\* queued the recv is pending too and the loop suspends
Suspend ==
    /\ pc = "select"
    /\ queue = <<>>
    /\ pc' = "waiting"
    /\ UNCHANGED <<h_vars, filter_vars, view_vars, core_vars, chan_vars,
                   status_message, should_quit, term_height, key_vars>>

\* the recv branch is ready: log_rx.recv() yields Some(event)
RecvReady == pc \in {"select", "waiting"} /\ queue # <<>>

\* variant: follow mode leaves the scroll offset where it was
PushLine_NoFollow(ev) ==
    LET idx == Len(lines)
        pass == Passes(active_filter, ev.text)
    IN  /\ lines' = Append(lines, [raw |-> ev.text, index |-> idx, id |-> ev.id])
        /\ filtered_indices' = IF pass THEN Append(filtered_indices, idx)
                               ELSE filtered_indices
        /\ scroll' = scroll

\* variant: the new line goes to the front of the buffer
PushLine_Prepend(ev) ==
    LET idx == Len(lines)
        pass == Passes(active_filter, ev.text)
        fi == IF pass THEN Append(filtered_indices, idx) ELSE filtered_indices
    IN  /\ lines' = <<[raw |-> ev.text, index |-> idx, id |-> ev.id]>> \o lines
        /\ filtered_indices' = fi
        /\ scroll' = IF pass /\ stick_to_bottom
                     THEN MaxScroll(Len(fi), viewport_height)
                     ELSE scroll

\* variant: the new index is recorded without evaluating the filter
PushLine_Unfiltered(ev) ==
    LET idx == Len(lines)
        fi == Append(filtered_indices, idx)
    IN  /\ lines' = Append(lines, [raw |-> ev.text, index |-> idx, id |-> ev.id])
        /\ filtered_indices' = fi
        /\ scroll' = IF stick_to_bottom
                     THEN MaxScroll(Len(fi), viewport_height)
                     ELSE scroll

\* AppState::push_line
PushLine(ev) ==
    LET idx == Len(lines)
        pass == Passes(active_filter, ev.text)
        fi == IF pass THEN Append(filtered_indices, idx) ELSE filtered_indices
    IN  /\ lines' = Append(lines, [raw |-> ev.text, index |-> idx, id |-> ev.id])
        /\ filtered_indices' = fi
        /\ scroll' = IF pass /\ stick_to_bottom
                     THEN MaxScroll(Len(fi), viewport_height)
                     ELSE scroll

\* variant: the Line event is taken off the queue and not pushed
RecvLine_Dropped ==
    /\ RecvReady
    /\ Head(queue).kind = "Line"
    /\ dequeued' = Append(dequeued, Head(queue).id)
    /\ queue' = Tail(queue)
    /\ EndIteration(should_quit)
    /\ UNCHANGED <<h_vars, filter_vars, view_vars, lines, filtered_indices, bookmarks,
                   producers, nsent, status_message, should_quit, term_height, key_vars>>

\* LogEvent::Line(line) => state.push_line(line)
RecvLine ==
    /\ RecvReady
    /\ Head(queue).kind = "Line"
    /\ PushLine(Head(queue))
    /\ dequeued' = Append(dequeued, Head(queue).id)
    /\ queue' = Tail(queue)
    /\ EndIteration(should_quit)
    /\ UNCHANGED <<h_vars, filter_vars, stick_to_bottom, viewport_height, bookmarks,
                   producers, nsent, status_message, should_quit, term_height, key_vars>>

\* LogEvent::Error(msg) => state.status_message = Some("Error: ...")
RecvError ==
    /\ RecvReady
    /\ Head(queue).kind = "Error"
    /\ status_message' = "Error"
    /\ queue' = Tail(queue)
    /\ EndIteration(should_quit)
    /\ UNCHANGED <<h_vars, filter_vars, view_vars, core_vars, producers, nsent,
                   should_quit, term_height, key_vars>>

\* variant: the end of the stream ends the loop
RecvEndOfStream_Quits ==
    /\ RecvReady
    /\ Head(queue).kind = "EndOfStream"
    /\ status_message' = "Stream ended"
    /\ queue' = Tail(queue)
    /\ should_quit' = TRUE
    /\ EndIteration(TRUE)
    /\ UNCHANGED <<h_vars, filter_vars, view_vars, core_vars, producers, nsent,
                   term_height, key_vars>>

\* LogEvent::EndOfStream => state.status_message = Some("Stream ended")
RecvEndOfStream ==
    /\ RecvReady
    /\ Head(queue).kind = "EndOfStream"
    /\ status_message' = "Stream ended"
    /\ queue' = Tail(queue)
    /\ EndIteration(should_quit)
    /\ UNCHANGED <<h_vars, filter_vars, view_vars, core_vars, producers, nsent,
                   should_quit, term_height, key_vars>>

\* the sleep branch completes: 16 ms have passed since the select started
SleepReady == pc = "waiting"

\* event::poll(Duration::ZERO) is false: no input pending
SleepNoInput ==
    /\ SleepReady
    /\ ~input_pending
    /\ EndIteration(should_quit)
    /\ UNCHANGED <<h_vars, filter_vars, view_vars, core_vars, chan_vars,
                   status_message, should_quit, term_height, key_vars>>

\* input::handle_key, a key that edits the filter text: restart the debounce
KeyEdit(text) ==
    /\ SleepReady
    /\ text # filter_text
    /\ filter_text' = text
    /\ filter_needs_recompute' = TRUE
    /\ elapsed' = 0
    /\ rescans' = 0
    /\ EndIteration(should_quit)
    /\ UNCHANGED <<h_vars, active_filter, filter_is_regex, view_vars, core_vars,
                   chan_vars, status_message, should_quit, term_height, key_vars>>

\* input::handle_key, the regex-mode toggle: restart the debounce
KeyToggleRegex ==
    /\ SleepReady
    /\ filter_is_regex' = ~filter_is_regex
    /\ filter_needs_recompute' = TRUE
    /\ elapsed' = 0
    /\ rescans' = 0
    /\ EndIteration(should_quit)
    /\ UNCHANGED <<h_vars, active_filter, filter_text, view_vars, core_vars,
                   chan_vars, status_message, should_quit, term_height, key_vars>>

\* input::handle_key, manual scroll by one line: leaves follow mode
KeyScroll(delta) ==
    /\ SleepReady
    /\ scroll' = Min2(Max2(0, scroll + delta),
                      MaxScroll(Len(filtered_indices), viewport_height))
    /\ stick_to_bottom' = FALSE
    /\ EndIteration(should_quit)
    /\ UNCHANGED <<h_vars, filter_vars, viewport_height, core_vars, chan_vars,
                   status_message, should_quit, term_height, key_vars>>

\* input::handle_key, re-enable follow mode
KeyFollow ==
    /\ SleepReady
    /\ ~stick_to_bottom
    /\ stick_to_bottom' = TRUE
    /\ scroll' = MaxScroll(Len(filtered_indices), viewport_height)
    /\ EndIteration(should_quit)
    /\ UNCHANGED <<h_vars, filter_vars, viewport_height, core_vars, chan_vars,
                   status_message, should_quit, term_height, key_vars>>

\* input::handle_key, toggle the bookmark of the line at the scroll position
KeyToggleBookmark ==
    /\ SleepReady
    /\ scroll < Len(filtered_indices)
    /\ LET idx == filtered_indices[scroll + 1]
       IN  bookmarks' = IF idx \in bookmarks THEN bookmarks \ {idx}
                        ELSE bookmarks \cup {idx}
    /\ EndIteration(should_quit)
    /\ UNCHANGED <<h_vars, filter_vars, view_vars, lines, filtered_indices, dequeued,
                   chan_vars, status_message, should_quit, term_height, key_vars>>

\* the positions of filtered_indices, counted from 0 like scroll, that hold
\* a bookmarked line and lie in direction dir of position from
BookmarkedPositions(dir, from) ==
    {p \in 0..(Len(filtered_indices) - 1) :
        /\ filtered_indices[p + 1] \in bookmarks
        /\ IF dir = 1 THEN p > from ELSE p < from}

\* the jump: scroll to position p, leave follow mode
JumpTo(dir, p) ==
    /\ scroll' = Min2(p, MaxScroll(Len(filtered_indices), viewport_height))
    /\ stick_to_bottom' = FALSE
    /\ nav_target' = Some([dir |-> dir, index |-> filtered_indices[p + 1]])

\* variant: the jump goes to the nearest bookmark of the whole buffer, shown
\* or not
KeyJumpBookmark_Unfiltered(dir) ==
    /\ SleepReady
    /\ LET from == IF scroll < Len(filtered_indices)
                   THEN filtered_indices[scroll + 1] ELSE 0
           ahead == {b \in bookmarks : IF dir = 1 THEN b > from ELSE b < from}
       IN  /\ ahead # {}
           /\ LET b == IF dir = 1 THEN Min(ahead)
                       ELSE CHOOSE x \in ahead : \A y \in ahead : y <= x
              IN  /\ scroll' = Min2(b, MaxScroll(Len(filtered_indices),
                                                 viewport_height))
                  /\ stick_to_bottom' = FALSE
                  /\ nav_target' = Some([dir |-> dir, index |-> b])
    /\ EndIteration(should_quit)
    /\ UNCHANGED <<h_vars, filter_vars, viewport_height, core_vars, chan_vars,
                   status_message, should_quit, term_height, input_pending>>

\* input::handle_key, next (dir = 1) or previous (dir = -1) bookmark: jump to
\* the nearest bookmarked line of the filtered view in that direction, stay
\* put when there is none
KeyJumpBookmark(dir) ==
    /\ SleepReady
    /\ LET ahead == BookmarkedPositions(dir, scroll)
       IN  /\ ahead # {}
           /\ JumpTo(dir, IF dir = 1 THEN Min(ahead)
                          ELSE CHOOSE p \in ahead : \A q \in ahead : q <= p)
    /\ EndIteration(should_quit)
    /\ UNCHANGED <<h_vars, filter_vars, viewport_height, core_vars, chan_vars,
                   status_message, should_quit, term_height, input_pending>>

\* input::handle_key, the quit key
KeyQuit ==
    /\ SleepReady
    /\ should_quit' = TRUE
    /\ EndIteration(TRUE)
    /\ UNCHANGED <<h_vars, filter_vars, view_vars, core_vars, chan_vars,
                   status_message, term_height, key_vars>>

\* the user presses the quit key: it waits in the terminal's input buffer
\* until event::poll sees it
KeyPress ==
    /\ pc # "done"
    /\ ~input_pending
    /\ input_pending' = TRUE
    /\ UNCHANGED <<h_vars, filter_vars, view_vars, core_vars, chan_vars,
                   status_message, should_quit, pc, term_height, nav_target>>

\* the sleep branch finds the pending key: event::poll is true, event::read
\* takes the key and input::handle_key sets should_quit
HandlePendingKey ==
    /\ SleepReady
    /\ input_pending
    /\ input_pending' = FALSE
    /\ should_quit' = TRUE
    /\ EndIteration(TRUE)
    /\ UNCHANGED <<h_vars, filter_vars, view_vars, core_vars, chan_vars,
                   status_message, term_height, nav_target>>

\* a producer task sends an event; the send suspends while the queue is full
CanSend(p) == producers[p] = "running" /\ Len(queue) < QueueCap

ProduceLine(p, text) ==
    /\ CanSend(p)
    /\ nsent < MaxEvents
    /\ queue' = Append(queue, [kind |-> "Line", text |-> text, id |-> nsent + 1])
    /\ nsent' = nsent + 1
    /\ UNCHANGED <<h_vars, filter_vars, view_vars, core_vars, producers,
                   status_message, should_quit, pc, term_height, key_vars>>

ProduceError(p) ==
    /\ CanSend(p)
    /\ nsent < MaxEvents
    /\ queue' = Append(queue, [kind |-> "Error", text |-> <<>>, id |-> nsent + 1])
    /\ nsent' = nsent + 1
    /\ UNCHANGED <<h_vars, filter_vars, view_vars, core_vars, producers,
                   status_message, should_quit, pc, term_height, key_vars>>

\* a producer whose source keeps failing reports it again and again; these
\* events are not numbered
ProduceErrorAgain(p) ==
    /\ CanSend(p)
    /\ queue' = Append(queue, [kind |-> "Error", text |-> <<>>, id |-> 0])
    /\ UNCHANGED <<h_vars, filter_vars, view_vars, core_vars, producers, nsent,
                   status_message, should_quit, pc, term_height, key_vars>>

\* the producer's stream ends: EndOfStream is its last event
ProduceEndOfStream(p) ==
    /\ CanSend(p)
    /\ queue' = Append(queue, [kind |-> "EndOfStream", text |-> <<>>, id |-> 0])
    /\ producers' = [producers EXCEPT ![p] = "ended"]
    /\ UNCHANGED <<h_vars, filter_vars, view_vars, core_vars, nsent,
                   status_message, should_quit, pc, term_height, key_vars>>

\* time passes; the clock is read only while a recompute is pending, and only
\* compared against the debounce threshold
Tick ==
    /\ filter_needs_recompute
    /\ elapsed < DebounceTicks
    /\ elapsed' = elapsed + 1
    /\ UNCHANGED <<h_vars, active_filter, filter_text, filter_is_regex,
                   filter_needs_recompute, rescans, view_vars, core_vars,
                   chan_vars, status_message, should_quit, pc, term_height, key_vars>>

\* the terminal is resized
Resize ==
    /\ \E h \in Heights \ {term_height} : term_height' = h
    /\ UNCHANGED <<h_vars, filter_vars, view_vars, core_vars, chan_vars,
                   status_message, should_quit, pc, key_vars>>

Consumer ==
    \/ CheckDebounce
    \/ Draw
    \/ Suspend
    \/ RecvLine
    \/ RecvError
    \/ RecvEndOfStream
    \/ SleepNoInput
    \/ \E text \in FilterTexts : KeyEdit(text)
    \/ KeyToggleRegex
    \/ \E delta \in {-1, 1} : KeyScroll(delta)
    \/ KeyFollow
    \/ KeyToggleBookmark
    \/ \E dir \in {-1, 1} : KeyJumpBookmark(dir)
    \/ KeyQuit
    \/ HandlePendingKey

Environment ==
    \/ KeyPress
    \/ \E p \in Producers : ProduceErrorAgain(p)
    \/ \E p \in Producers : \E text \in LineTexts : ProduceLine(p, text)
    \/ \E p \in Producers : ProduceError(p)
    \/ \E p \in Producers : ProduceEndOfStream(p)
    \/ Tick
    \/ Resize

Next == Consumer \/ Environment

Spec == Init /\ [][Next]_vars

(***************************************************************************)
(* The same loop under narrower environments.  Every specification starts  *)
(* from Init and takes its steps from the actions above; each leaves out   *)
(* the inputs that the properties checked under it do not depend on.       *)
(***************************************************************************)
\* ingestion and filter editing: no manual scrolling, no resize, no errors
NextIndex ==
    \/ CheckDebounce
    \/ Draw
    \/ Suspend
    \/ RecvLine
    \/ SleepNoInput
    \/ \E text \in FilterTexts : KeyEdit(text)
    \/ KeyToggleRegex
    \/ \E p \in Producers : \E text \in LineTexts : ProduceLine(p, text)
    \/ Tick

SpecIndex == Init /\ [][NextIndex]_vars

\* ingestion, filter text editing, scrolling, follow mode and resizing
NextView ==
    \/ CheckDebounce
    \/ Draw
    \/ Suspend
    \/ RecvLine
    \/ SleepNoInput
    \/ \E text \in FilterTexts : KeyEdit(text)
    \/ \E delta \in {-1, 1} : KeyScroll(delta)
    \/ KeyFollow
    \/ \E p \in Producers : \E text \in LineTexts : ProduceLine(p, text)
    \/ Tick
    \/ Resize

SpecView == Init /\ [][NextView]_vars

\* bookmarks under a changing filter: toggling and jumping
NextBookmark ==
    \/ CheckDebounce
    \/ Draw
    \/ Suspend
    \/ RecvLine
    \/ SleepNoInput
    \/ \E text \in FilterTexts : KeyEdit(text)
    \/ KeyToggleBookmark
    \/ \E dir \in {-1, 1} : KeyJumpBookmark(dir)
    \/ \E p \in Producers, text \in LineTexts : ProduceLine(p, text)
    \/ Tick

SpecBookmark == Init /\ [][NextBookmark]_vars

\* bookmarks on a display that is resized between frames
NextMarkers ==
    \/ CheckDebounce
    \/ Draw
    \/ Suspend
    \/ RecvLine
    \/ SleepNoInput
    \/ KeyToggleBookmark
    \/ \E p \in Producers, text \in LineTexts : ProduceLine(p, text)
    \/ Resize

SpecMarkers == Init /\ [][NextMarkers]_vars

\* the producers, the queue and the three event kinds, with bookmarks and
\* the quit key
NextQueue ==
    \/ CheckDebounce
    \/ Draw
    \/ Suspend
    \/ RecvLine
    \/ RecvError
    \/ RecvEndOfStream
    \/ SleepNoInput
    \/ KeyToggleBookmark
    \/ KeyQuit
    \/ \E p \in Producers : \E text \in LineTexts : ProduceLine(p, text)
    \/ \E p \in Producers : ProduceError(p)
    \/ \E p \in Producers : ProduceEndOfStream(p)

SpecQueue == Init /\ [][NextQueue]_vars

\* the producers, the queue and the loop alone: the only key is quit
NextChannel ==
    \/ CheckDebounce
    \/ Draw
    \/ Suspend
    \/ RecvLine
    \/ RecvError
    \/ RecvEndOfStream
    \/ SleepNoInput
    \/ KeyQuit
    \/ \E p \in Producers : \E text \in LineTexts : ProduceLine(p, text)
    \/ \E p \in Producers : ProduceError(p)
    \/ \E p \in Producers : ProduceEndOfStream(p)

SpecChannel == Init /\ [][NextChannel]_vars

(***************************************************************************)
(* Properties of the filtered index and its debounce                       *)
(***************************************************************************)
FullRange == [i \in 1..Len(lines) |-> i - 1]

\* C1: FilteredIndex is strictly increasing, holds only indices present in
\* the buffer, every element passes the active filter, and with no active
\* filter it is the full index range 0..length-1.
C1_FilteredIndexConsistent ==
    /\ \A i \in 1..(Len(filtered_indices) - 1) :
           filtered_indices[i] < filtered_indices[i + 1]
    /\ \A i \in 1..Len(filtered_indices) :
           /\ filtered_indices[i] \in 0..(Len(lines) - 1)
           /\ active_filter # None =>
                  Matches(active_filter[1], lines[filtered_indices[i] + 1].raw)
    /\ active_filter = None => filtered_indices = FullRange

\* a full buffer under an active filter that keeps some lines and drops
\* others, with a further edit pending
C1_Witness ==
    /\ active_filter # None
    /\ Len(lines) = MaxEvents
    /\ Len(filtered_indices) > 0
    /\ Len(filtered_indices) < Len(lines)
    /\ filter_needs_recompute

\* a debounce check that finds a recompute pending and the threshold passed
CheckDue == pc = "check" /\ filter_needs_recompute /\ elapsed >= DebounceTicks

\* C2: while edits keep arriving within the threshold no rescan happens; the
\* first check after the text has been idle for the threshold performs one
\* rescan, with the final pattern; checks with no new edit perform none.
C2_DebouncedRescan ==
    [][/\ (pc = "check" /\ pc' = "draw" /\ ~CheckDue) =>
              UNCHANGED <<rescans, active_filter, filtered_indices>>
       /\ (pc = "check" /\ pc' = "draw" /\ CheckDue) =>
              /\ rescans = 0 /\ rescans' = 1
              /\ ~filter_needs_recompute'
              /\ active_filter' = PendingFilter(filter_text, filter_is_regex)
              /\ filtered_indices' = Rebuild(active_filter', lines, 1)
       /\ pc # "check" => (rescans' = rescans \/ rescans' = 0)
      ]_vars

\* after two edits the one rescan has run on a non-empty buffer, installed a
\* filter and dropped a line
C2_Witness ==
    /\ rescans = 1
    /\ ~filter_needs_recompute
    /\ active_filter # None
    /\ Len(filtered_indices) < Len(lines)
    /\ pc = "draw"

(***************************************************************************)
(* Properties of the viewport                                              *)
(***************************************************************************)
\* the rows shown from scroll offset sc on a display of h rows
Window(sc, h) ==
    [row \in 1..(Min2(Len(filtered_indices), sc + h) - sc) |->
        filtered_indices[sc + row]]

LastRowIs(w, idx) == w # <<>> /\ w[Len(w)] = idx

\* C3: with follow mode on, appending a line that passes the filter (any
\* line when there is no filter) leaves that line on the last visible row,
\* for the stored scroll offset and for the window of every display height.
C3_FollowShowsNewLine ==
    [][(/\ Len(lines') = Len(lines) + 1
        /\ stick_to_bottom
        /\ Passes(active_filter, lines'[Len(lines')].raw)) =>
           /\ LastRowIs(Window(scroll, viewport_height)', Len(lines))
           /\ \A h \in 1..MaxHeight : LastRowIs(VisibleLines(h)', Len(lines))
      ]_vars

\* follow mode has just scrolled a filtered view past its first row to show
\* the line appended last
C3_Witness ==
    /\ pc = "check"
    /\ stick_to_bottom
    /\ active_filter # None
    /\ scroll > 0
    /\ Len(filtered_indices) < Len(lines)
    /\ filtered_indices[Len(filtered_indices)] = Len(lines) - 1
    /\ dequeued # <<>> /\ lines[Len(lines)].id = dequeued[Len(dequeued)]

LineIds == [i \in 1..Len(lines) |-> lines[i].id]

\* C5: lines are appended in the order their Line events are dequeued, each
\* append takes the next sequence index, and no buffered line or index
\* ever changes.
C5_AppendInDequeueOrder ==
    /\ [](/\ LineIds = dequeued
          /\ \A i \in 1..Len(lines) : lines[i].index = i - 1)
    /\ [][/\ Len(lines') \in {Len(lines), Len(lines) + 1}
          /\ SubSeq(lines', 1, Len(lines)) = lines]_vars

\* three lines from the queue are in the buffer
C5_Witness ==
    /\ Len(lines) = MaxEvents
    /\ Len(dequeued) = MaxEvents

\* the step that dequeues an Error or EndOfStream event
DequeuesStatusEvent ==
    /\ queue # <<>>
    /\ Head(queue).kind \in {"Error", "EndOfStream"}
    /\ queue' = Tail(queue)

ChannelClosed == queue = <<>> /\ \A p \in Producers : producers[p] = "ended"

\* C7: dequeuing an Error or EndOfStream event changes only the status
\* message and does not stop the loop, which stays able to take its next
\* step, also once every producer has ended and the queue is closed.
C7_StatusEventsOnlySetStatus ==
    /\ [][DequeuesStatusEvent =>
              /\ UNCHANGED <<lines, active_filter, filtered_indices, bookmarks,
                             scroll, should_quit>>
              /\ status_message' # "None"
              /\ ~should_quit'
              /\ pc' = "check"
         ]_vars
    /\ [](pc = "waiting" /\ ChannelClosed => ENABLED SleepNoInput)

\* the loop is still waiting for input after both streams have ended, with
\* lines buffered and one bookmarked
C7_Witness ==
    /\ ChannelClosed
    /\ status_message = "Stream ended"
    /\ pc = "waiting"
    /\ lines # <<>>
    /\ bookmarks # {}

\* the steps of the consumer loop in NextChannel; the loop is a task the
\* runtime keeps scheduling, so it is weakly fair
ConsumerChannel ==
    \/ CheckDebounce
    \/ Draw
    \/ Suspend
    \/ RecvLine
    \/ RecvError
    \/ RecvEndOfStream
    \/ SleepNoInput
    \/ KeyQuit

LiveSpecChannel == SpecChannel /\ WF_vars(ConsumerChannel)

QueuedLineIds == {queue[k].id : k \in {j \in 1..Len(queue) : queue[j].kind = "Line"}}
BufferedIds == {lines[i].id : i \in 1..Len(lines)}

\* C6: the queue never exceeds its capacity, a Line event leaves the queue
\* only by being appended to the buffer, no event is buffered twice, and
\* every queued Line event is eventually buffered unless the loop quits.
C6_BoundedLosslessQueue ==
    /\ [](/\ Len(queue) <= QueueCap
          /\ QueuedLineIds \cap BufferedIds = {}
          /\ \A i, j \in 1..Len(lines) : lines[i].id = lines[j].id => i = j
          /\ \A i, j \in 1..Len(queue) :
                 (queue[i].kind = "Line" /\ queue[j].kind = "Line"
                  /\ queue[i].id = queue[j].id) => i = j)
    /\ [][\A id \in QueuedLineIds :
              \/ id \in QueuedLineIds'
              \/ /\ queue[1].id = id
                 /\ Len(lines') = Len(lines) + 1
                 /\ lines'[Len(lines')].id = id
                 /\ lines'[Len(lines')].raw = queue[1].text]_vars
    /\ \A id \in 1..MaxEvents :
           (id \in QueuedLineIds) ~> (id \in BufferedIds \/ pc = "done")

\* the queue has been full with a producer still running, and Line events
\* that passed through it are buffered
C6_Witness ==
    /\ Len(queue) = QueueCap
    /\ \E p \in Producers : producers[p] = "running"
    /\ nsent < MaxEvents
    /\ Len(lines) > 0
    /\ QueuedLineIds # {}

\* a step that jumps to a bookmark: it records a new direction or target
IsJump == nav_target' # nav_target

\* the position of sequence index idx in filtered_indices, counted from 0
PositionsOf(idx) ==
    {p \in 0..(Len(filtered_indices) - 1) : filtered_indices[p + 1] = idx}

\* C12: a next/previous bookmark jump lands on the nearest bookmarked line in
\* the requested direction among the lines currently in FilteredIndex, never
\* on a bookmarked line the filter excludes; and no change of the filter or
\* of FilteredIndex alters the bookmark set, so a bookmarked line that is
\* filtered out can be jumped to again once the filter is cleared.
C12_BookmarkJumpWithinFilteredIndex ==
    [][/\ IsJump =>
            LET jump == nav_target'[1]
            IN  \E p \in PositionsOf(jump.index) :
                    /\ jump.index \in bookmarks
                    /\ IF jump.dir = 1 THEN p > scroll ELSE p < scroll
                    /\ \A q \in 0..(Len(filtered_indices) - 1) :
                           (/\ filtered_indices[q + 1] \in bookmarks
                            /\ IF jump.dir = 1 THEN q > scroll ELSE q < scroll)
                               => (IF jump.dir = 1 THEN p <= q ELSE q <= p)
                    /\ scroll' = Min2(p, MaxScroll(Len(filtered_indices),
                                                   viewport_height))
       /\ (active_filter' # active_filter
           \/ filtered_indices' # filtered_indices) => bookmarks' = bookmarks
      ]_vars

\* the filter hides bookmarked line 1, and a jump back from the last line
\* went past it to bookmarked line 0
C12_Witness ==
    /\ bookmarks = {0, 1}
    /\ active_filter # None
    /\ filtered_indices = <<0, 2>>
    /\ nav_target = Some([dir |-> -1, index |-> 0])
    /\ scroll = 0

\* C18: on every row of the window that draw_log_view draws, the bookmark
\* marker is shown exactly when the sequence index of the line displayed on
\* that row is in the bookmark set.
C18_MarkerOnBookmarkedRows ==
    (pc = "draw" /\ term_height > 0) =>
        \A row \in 1..Len(LineData(term_height)) :
            LineData(term_height)[row].is_bookmarked
                <=> LineData(term_height)[row].index \in bookmarks

\* a key pressed at any time, under producers that never run out of events
NextInput ==
    \/ CheckDebounce
    \/ Draw
    \/ Suspend
    \/ RecvLine
    \/ RecvError
    \/ SleepNoInput
    \/ HandlePendingKey
    \/ KeyPress
    \/ \E p \in Producers, text \in LineTexts : ProduceLine(p, text)
    \/ \E p \in Producers : ProduceErrorAgain(p)

SpecInput == Init /\ [][NextInput]_vars

ConsumerInput ==
    \/ CheckDebounce
    \/ Draw
    \/ Suspend
    \/ RecvLine
    \/ RecvError
    \/ SleepNoInput
    \/ HandlePendingKey

\* the loop keeps running, and the sleep branch is not passed over forever
\* once it is ready again and again
LiveSpecInput ==
    SpecInput /\ WF_vars(ConsumerInput) /\ SF_vars(HandlePendingKey)

\* C16: a pending terminal input event, the quit key included, is eventually
\* read and handled by the consumer loop, also when a log event is available
\* in the queue at every loop iteration.
C16_PendingInputHandled == input_pending ~> ~input_pending

====
